---- MODULE Spec2Model ----
(***************************************************************************)
(* Model of gl_texture.cpp: main() with the three helpers ShaderProgram,   *)
(* InitializeGeometry and LoadImage.  The program is single-threaded; pc   *)
(* is the position of main's thread.  The windowing library, the GL driver *)
(* and the file system are the environment: every value they return that   *)
(* the code reads is a nondeterministic choice.  calls records the         *)
(* windowing/graphics entry points in the order the code calls them.       *)
(***************************************************************************)
EXTENDS Integers, Sequences, FiniteSets, TLC

VARIABLES pc, calls, out, err, exitCode, shouldClose, fs,
          shader, gl, frames, img

vars == <<pc, calls, out, err, exitCode, shouldClose, fs, shader, gl, frames, img>>

(* ------------------------------ bounds --------------------------------- *)
\* Iterations of the render loop that are explored.
MaxFrames == 2
\* Largest width and height LoadImage is applied to in SpecLoadImage.
MaxDim == 2
\* Longest image file (in bytes) LoadImage is applied to in SpecLoadImage.
MaxFileLen == 4

(* -------------------------- program constants -------------------------- *)
SIZE == 512
EXIT_SUCCESS == 0
EXIT_FAILURE == 1
\* glDrawArrays(GL_TRIANGLE_STRIP, 0, 4): the vertex count of the draw call.
DrawCount == 4
\* glUniform1i(texture_attrib, 0), glActiveTexture(GL_TEXTURE0 + 0): the
\* texture unit.
TextureUnit == 0

Min(a, b) == IF a <= b THEN a ELSE b
Max(a, b) == IF a >= b THEN a ELSE b

(* ------------------------------ files ---------------------------------- *)
\* A shader file is missing or holds a source text; the texts are told apart
\* only by what the driver's compiler makes of them.
Missing == "missing"
ShaderFiles == {Missing, "well-formed", "malformed"}

\* std::string code(istreambuf_iterator(stream), istreambuf_iterator()):
\* a stream that failed to open yields no characters, so the string is empty.
ReadAll(file) == IF file = Missing THEN "" ELSE file

\* The lengths of lena.rgb that are explored, around width*height*3.
ImageFiles ==
  {[exists |-> FALSE, len |-> 0]} \cup
  {[exists |-> TRUE, len |-> n] :
      n \in {0, SIZE * SIZE * 3 - 1, SIZE * SIZE * 3, SIZE * SIZE * 3 + 1}}

(* ---------------------------- GL driver -------------------------------- *)
\* GL_COMPILE_STATUS after glCompileShader: a malformed source never
\* compiles; any other source compiles or not, as the driver decides.
CompileStatus(code) == IF code = "malformed" THEN {FALSE} ELSE BOOLEAN

\* The info log a driver keeps for a failed stage: none, one that does not
\* name the stage, or one that does.  A log is a sequence of words.
StageWord(stage) ==
  CASE stage = "vertex" -> "Vertex"
    [] stage = "fragment" -> "Fragment"
    [] OTHER -> "Program"
DriverLogs(stage) ==
  { <<>>, <<"ERROR:", "0:1:", "syntax", "error">>,
    <<StageWord(stage), "shader", "failed">> }

\* GL_INFO_LOG_LENGTH: the log's length including the terminating NUL,
\* 0 when there is no log.
InfoLogLength(log) == IF Len(log) = 0 THEN 0 ELSE Len(log) + 1
NUL == "\\0"
Blank == " "

\* std::string s(info_length, ' '); glGet*InfoLog(id, info_length, NULL, &s[0]):
\* the driver writes at most info_length - 1 units and a NUL; what it does not
\* write stays ' '.
FetchLog(log, info_length) ==
  LET n == Min(Len(log), Max(info_length - 1, 0))
      written == IF info_length = 0 THEN <<>> ELSE SubSeq(log, 1, n) \o <<NUL>>
  IN  written \o [i \in 1..(info_length - Len(written)) |-> Blank]

VertexBanner == <<"Compiling", "Vertex", "Shader", "...">>
FragmentBanner == <<"Compiling", "Fragment", "Shader", "...">>
LinkBanner == <<"Linking", "Shader", "Program", "...">>

(* ------------------------ LoadImage: the data ------------------------- *)
\* std::vector<char> buffer(width*height*3), line 140.  The product is an
\* unsigned int; for the only call, LoadImage("lena.rgb", SIZE, SIZE), and for
\* the dimensions explored in SpecLoadImage it is below 2^32 and does not wrap.
BufferSize(width, height) == width * height * 3

\* Mutant: read() is asked for the whole file instead of buffer.size() bytes.
ReadCount_WholeFile(file, count) == IF file.exists THEN file.len ELSE 0

\* image_stream.read(buffer.data(), count), line 141: the number of bytes
\* stored.  A stream that failed to open stores nothing; otherwise bytes are
\* stored until count are stored or the file ends.
ReadCount(file, count) == IF file.exists THEN Min(file.len, count) ELSE 0

\* glGenTextures(1, &texture_id): the first texture name of the context.
TextureName == 1

\* LoadImage(image_file, width, height), lines 126-147: what is uploaded and
\* returned.  stored is the number of bytes read() stored, overrun the number
\* of them stored past the end of buffer, diagnostics what is written to
\* std::cout or std::cerr.
LoadImage(file, width, height) ==
  LET size == BufferSize(width, height)
      stored == ReadCount(file, size)
  IN  [uploaded |-> TRUE, width |-> width, height |-> height,
       size |-> size, stored |-> stored, overrun |-> Max(stored - size, 0),
       diagnostics |-> <<>>, texture_id |-> TextureName]

NoTexture ==
  [uploaded |-> FALSE, width |-> 0, height |-> 0, size |-> 0, stored |-> 0,
   overrun |-> 0, diagnostics |-> <<>>, texture_id |-> 0]

\* The bytes of buffer after read(): value-initialised to 0 (line 140), the
\* first stored of them overwritten with the file's (line 141).
BufferData(file, size) ==
  [i \in 1..size |-> IF i <= ReadCount(file, size) THEN file.bytes[i] ELSE 0]

(* --------------------------- initial state ----------------------------- *)
NoShader ==
  [vertex_shader_code |-> "", fragment_shader_code |-> "",
   vertex_ok |-> FALSE, fragment_ok |-> FALSE, link_ok |-> FALSE,
   vertex_log |-> <<>>, fragment_log |-> <<>>, program_log |-> <<>>,
   program_id |-> 0, shaders_deleted |-> 0, returned |-> FALSE]

NoGL ==
  [current_program |-> -1, vertex_buffer |-> <<>>, texcoord_buffer |-> <<>>,
   texture |-> NoTexture, uniform_Texture |-> -1,
   active_unit |-> -1, bound_texture |-> -1,
   clear_color |-> <<>>, draws |-> <<>>]

NoImage == [stage |-> "unused"]

MainInit ==
  /\ pc = "glfwInit"
  /\ calls = <<>>
  /\ out = <<>>
  /\ err = <<>>
  /\ exitCode = -1
  /\ shouldClose = FALSE
  /\ shader = NoShader
  /\ gl = NoGL
  /\ frames = 0

Init ==
  /\ MainInit
  /\ fs \in [vert : ShaderFiles, frag : ShaderFiles, image : ImageFiles]
  /\ img = NoImage

Call(names) == calls' = calls \o names

(* ------------------------- main: initialization ------------------------ *)
\* main, lines 150-154.
GlfwInit ==
  /\ pc = "glfwInit"
  /\ Call(<<"glfwInit">>)
  /\ \E ok \in BOOLEAN :
       IF ok
       THEN /\ pc' = "createWindow"
            /\ UNCHANGED <<err, exitCode>>
       ELSE /\ err' = Append(err, "Failed to initialize GLFW!")
            /\ exitCode' = EXIT_FAILURE
            /\ pc' = "exit"
  /\ UNCHANGED <<out, shouldClose, fs, shader, gl, frames, img>>

Hints == <<"glfwWindowHint", "glfwWindowHint", "glfwWindowHint",
           "glfwWindowHint", "glfwWindowHint">>

\* Mutant: the window-creation failure path returns without glfwTerminate.
CreateWindow_NoTerminate ==
  /\ pc = "createWindow"
  /\ \E created \in BOOLEAN :
       IF created
       THEN /\ Call(Hints \o <<"glfwCreateWindow">>)
            /\ shouldClose' \in BOOLEAN
            /\ pc' = "glewInit"
            /\ UNCHANGED <<err, exitCode>>
       ELSE /\ Call(Hints \o <<"glfwCreateWindow">>)
            /\ err' = Append(err, "Failed to open GLFW window, your graphics card is probably only capable of OpenGL 2.1")
            /\ exitCode' = EXIT_FAILURE
            /\ pc' = "exit"
            /\ UNCHANGED shouldClose
  /\ UNCHANGED <<out, fs, shader, gl, frames, img>>

\* main, lines 156-169.  The window's close flag is the windowing system's:
\* event processing during window creation may already deliver a close request.
CreateWindow ==
  /\ pc = "createWindow"
  /\ \E created \in BOOLEAN :
       IF created
       THEN /\ Call(Hints \o <<"glfwCreateWindow">>)
            /\ shouldClose' \in BOOLEAN
            /\ pc' = "glewInit"
            /\ UNCHANGED <<err, exitCode>>
       ELSE /\ Call(Hints \o <<"glfwCreateWindow", "glfwTerminate">>)
            /\ err' = Append(err, "Failed to open GLFW window, your graphics card is probably only capable of OpenGL 2.1")
            /\ exitCode' = EXIT_FAILURE
            /\ pc' = "exit"
            /\ UNCHANGED shouldClose
  /\ UNCHANGED <<out, fs, shader, gl, frames, img>>

\* Mutant: the GL 3.3 failure path returns EXIT_SUCCESS.
GlewInit_ExitSuccess ==
  /\ pc = "glewInit"
  /\ \E supported \in BOOLEAN :
       IF supported
       THEN /\ Call(<<"glfwMakeContextCurrent", "glewInit", "glewIsSupported">>)
            /\ pc' = "ShaderProgram"
            /\ UNCHANGED <<err, exitCode>>
       ELSE /\ Call(<<"glfwMakeContextCurrent", "glewInit", "glewIsSupported",
                      "glfwTerminate">>)
            /\ err' = Append(err, "Failed to initialize GLEW with OpenGL 3.3!")
            /\ exitCode' = EXIT_SUCCESS
            /\ pc' = "exit"
  /\ UNCHANGED <<out, shouldClose, fs, shader, gl, frames, img>>

\* Mutant: the GL 3.3 failure is reported but main does not return.
GlewInit_NoReturn ==
  /\ pc = "glewInit"
  /\ \E supported \in BOOLEAN :
       /\ Call(<<"glfwMakeContextCurrent", "glewInit", "glewIsSupported">>)
       /\ err' = IF supported THEN err
                 ELSE Append(err, "Failed to initialize GLEW with OpenGL 3.3!")
       /\ pc' = "ShaderProgram"
       /\ UNCHANGED exitCode
  /\ UNCHANGED <<out, shouldClose, fs, shader, gl, frames, img>>

\* main, lines 171-181.
GlewInit ==
  /\ pc = "glewInit"
  /\ \E supported \in BOOLEAN :
       IF supported
       THEN /\ Call(<<"glfwMakeContextCurrent", "glewInit", "glewIsSupported">>)
            /\ pc' = "ShaderProgram"
            /\ UNCHANGED <<err, exitCode>>
       ELSE /\ Call(<<"glfwMakeContextCurrent", "glewInit", "glewIsSupported",
                      "glfwTerminate">>)
            /\ err' = Append(err, "Failed to initialize GLEW with OpenGL 3.3!")
            /\ exitCode' = EXIT_FAILURE
            /\ pc' = "exit"
  /\ UNCHANGED <<out, shouldClose, fs, shader, gl, frames, img>>

(* ---------------------------- ShaderProgram ---------------------------- *)
\* Mutant: a shader file that cannot be opened is treated as a fatal error.
ShaderCreate_CheckFile ==
  /\ pc = "ShaderProgram"
  /\ Call(<<"glCreateShader", "glCreateShader">>)
  /\ shader' = [shader EXCEPT !.vertex_shader_code = ReadAll(fs.vert),
                              !.fragment_shader_code = ReadAll(fs.frag)]
  /\ IF fs.vert = Missing \/ fs.frag = Missing
     THEN /\ err' = Append(err, "Failed to read shader file!")
          /\ exitCode' = EXIT_FAILURE
          /\ pc' = "exit"
     ELSE /\ pc' = "compileVertex"
          /\ UNCHANGED <<err, exitCode>>
  /\ UNCHANGED <<out, shouldClose, fs, gl, frames, img>>

\* ShaderProgram, lines 16-26: create both shader objects, read both files.
ShaderCreate ==
  /\ pc = "ShaderProgram"
  /\ Call(<<"glCreateShader", "glCreateShader">>)
  /\ shader' = [shader EXCEPT !.vertex_shader_code = ReadAll(fs.vert),
                              !.fragment_shader_code = ReadAll(fs.frag)]
  /\ pc' = "compileVertex"
  /\ UNCHANGED <<out, err, exitCode, shouldClose, fs, gl, frames, img>>

\* Mutant: the info log is fetched and printed whatever the status is.
StageOutput_Always(banner, result, log) ==
  <<banner, FetchLog(log, InfoLogLength(log))>>

\* What a stage writes to std::cout: its banner, then, only when the status
\* read back is GL_FALSE, the fetched info log (lines 36-41, 51-56, 68-73).
StageOutput(banner, result, log) ==
  IF result THEN <<banner>>
  ELSE <<banner, FetchLog(log, InfoLogLength(log))>>

\* The GL calls of a compile stage (lines 31-39, 46-54).
CompileCalls(result) ==
  <<"glShaderSource", "glCompileShader", "glGetShaderiv">> \o
  (IF result THEN <<>> ELSE <<"glGetShaderiv", "glGetShaderInfoLog">>)

\* Mutant: a vertex shader that fails to compile aborts the program.
CompileVertex_Abort ==
  /\ pc = "compileVertex"
  /\ \E result \in CompileStatus(shader.vertex_shader_code) :
     \E log \in IF result THEN {<<>>} ELSE DriverLogs("vertex") :
       /\ Call(CompileCalls(result))
       /\ out' = out \o StageOutput(VertexBanner, result, log)
       /\ shader' = [shader EXCEPT !.vertex_ok = result, !.vertex_log = log]
       /\ pc' = IF result THEN "compileFragment" ELSE "exit"
       /\ exitCode' = IF result THEN exitCode ELSE EXIT_FAILURE
  /\ UNCHANGED <<err, shouldClose, fs, gl, frames, img>>

\* ShaderProgram, lines 28-41.
CompileVertex ==
  /\ pc = "compileVertex"
  /\ \E result \in CompileStatus(shader.vertex_shader_code) :
     \E log \in IF result THEN {<<>>} ELSE DriverLogs("vertex") :
       /\ Call(CompileCalls(result))
       /\ out' = out \o StageOutput(VertexBanner, result, log)
       /\ shader' = [shader EXCEPT !.vertex_ok = result, !.vertex_log = log]
  /\ pc' = "compileFragment"
  /\ UNCHANGED <<err, exitCode, shouldClose, fs, gl, frames, img>>

\* ShaderProgram, lines 43-56.
CompileFragment ==
  /\ pc = "compileFragment"
  /\ \E result \in CompileStatus(shader.fragment_shader_code) :
     \E log \in IF result THEN {<<>>} ELSE DriverLogs("fragment") :
       /\ Call(CompileCalls(result))
       /\ out' = out \o StageOutput(FragmentBanner, result, log)
       /\ shader' = [shader EXCEPT !.fragment_ok = result, !.fragment_log = log]
  /\ pc' = "link"
  /\ UNCHANGED <<err, exitCode, shouldClose, fs, gl, frames, img>>

\* glCreateProgram returns a non-zero name, or 0 when the object cannot be
\* created.
ProgramNames == {0, 1}

\* The GL calls of the link stage (lines 60-71).
LinkCalls(result) ==
  <<"glCreateProgram", "glAttachShader", "glAttachShader",
    "glBindFragDataLocation", "glLinkProgram", "glGetProgramiv">> \o
  (IF result THEN <<>> ELSE <<"glGetProgramiv", "glGetProgramInfoLog">>)

\* ShaderProgram, lines 58-73.  The link status is the driver's; the code reads
\* it whatever the two compile checks gave.
Link ==
  /\ pc = "link"
  /\ \E id \in ProgramNames, result \in BOOLEAN :
     \E log \in IF result THEN {<<>>} ELSE DriverLogs("program") :
       /\ Call(LinkCalls(result))
       /\ out' = out \o StageOutput(LinkBanner, result, log)
       /\ shader' = [shader EXCEPT !.program_id = id, !.link_ok = result,
                                   !.program_log = log]
  /\ pc' = "deleteShaders"
  /\ UNCHANGED <<err, exitCode, shouldClose, fs, gl, frames, img>>

\* ShaderProgram, lines 74-77: delete both shader objects, return program_id.
DeleteShaders ==
  /\ pc = "deleteShaders"
  /\ Call(<<"glDeleteShader", "glDeleteShader">>)
  /\ shader' = [shader EXCEPT !.shaders_deleted = 2, !.returned = TRUE]
  /\ pc' = "glUseProgram"
  /\ UNCHANGED <<out, err, exitCode, shouldClose, fs, gl, frames, img>>

\* main, line 185: the handle ShaderProgram returned is made current unchecked.
UseProgram ==
  /\ pc = "glUseProgram"
  /\ Call(<<"glUseProgram">>)
  /\ gl' = [gl EXCEPT !.current_program = shader.program_id]
  /\ pc' = "InitializeGeometry"
  /\ UNCHANGED <<out, err, exitCode, shouldClose, fs, shader, frames, img>>

(* -------------------------- InitializeGeometry ------------------------- *)
\* Mutant: the last corner is left out of the position buffer.
vertex_buffer_Triangle == <<1, 1, -1, 1, 1, -1>>

\* InitializeGeometry, lines 87-93: x, y of the four corners.
vertex_buffer == <<1, 1, -1, 1, 1, -1, -1, -1>>
\* InitializeGeometry, lines 107-113: u, v of the four corners.
texcoord_buffer == <<1, 0, 0, 0, 1, 1, 0, 1>>

GeometryCalls ==
  <<"glGenVertexArrays", "glBindVertexArray",
    "glGenBuffers", "glBindBuffer", "glBufferData",
    "glGetAttribLocation", "glVertexAttribPointer", "glEnableVertexAttribArray",
    "glGenBuffers", "glBindBuffer", "glBufferData",
    "glGetAttribLocation", "glVertexAttribPointer", "glEnableVertexAttribArray">>

\* InitializeGeometry(program_id), lines 80-123: glBufferData uploads
\* vertex_buffer.size() and texcoord_buffer.size() floats.
InitializeGeometry ==
  /\ pc = "InitializeGeometry"
  /\ Call(GeometryCalls)
  /\ gl' = [gl EXCEPT !.vertex_buffer = vertex_buffer,
                      !.texcoord_buffer = texcoord_buffer]
  /\ pc' = "LoadImage"
  /\ UNCHANGED <<out, err, exitCode, shouldClose, fs, shader, frames, img>>

(* ------------------------------- LoadImage ----------------------------- *)
LoadImageCalls ==
  <<"glGenTextures", "glBindTexture", "glTexParameteri", "glTexParameteri",
    "glTexImage2D">>

\* main, line 190: LoadImage("lena.rgb", SIZE, SIZE).
LoadTexture ==
  /\ pc = "LoadImage"
  /\ Call(LoadImageCalls)
  /\ LET t == LoadImage(fs.image, SIZE, SIZE)
     IN  /\ gl' = [gl EXCEPT !.texture = t]
         /\ out' = out \o t.diagnostics
  /\ pc' = "bindTexture"
  /\ UNCHANGED <<err, exitCode, shouldClose, fs, shader, frames, img>>

\* main, lines 191-194.
BindTexture ==
  /\ pc = "bindTexture"
  /\ Call(<<"glGetUniformLocation", "glUniform1i", "glActiveTexture",
            "glBindTexture">>)
  /\ gl' = [gl EXCEPT !.uniform_Texture = TextureUnit,
                      !.active_unit = TextureUnit,
                      !.bound_texture = gl.texture.texture_id]
  /\ pc' = "loopTest"
  /\ UNCHANGED <<out, err, exitCode, shouldClose, fs, shader, frames, img>>

(* ------------------------------ render loop ---------------------------- *)
\* Mutant: the loop body runs once before the close flag is first tested.
LoopTest_DoWhile ==
  /\ pc = "loopTest"
  /\ shouldClose \/ frames < MaxFrames
  /\ Call(<<"glfwWindowShouldClose">>)
  /\ pc' = IF shouldClose /\ frames > 0 THEN "glfwTerminate" ELSE "clear"
  /\ UNCHANGED <<out, err, exitCode, shouldClose, fs, shader, gl, frames, img>>

\* main, line 197: while (!glfwWindowShouldClose(window)).
LoopTest ==
  /\ pc = "loopTest"
  /\ shouldClose \/ frames < MaxFrames
  /\ Call(<<"glfwWindowShouldClose">>)
  /\ pc' = IF shouldClose THEN "glfwTerminate" ELSE "clear"
  /\ UNCHANGED <<out, err, exitCode, shouldClose, fs, shader, gl, frames, img>>

\* glClearColor(.5f, .5f, .5f, 0), line 199.
Gray == <<".5f", ".5f", ".5f", "0">>

\* main, lines 198-201.
Clear ==
  /\ pc = "clear"
  /\ Call(<<"glClearColor", "glClear">>)
  /\ gl' = [gl EXCEPT !.clear_color = Gray]
  /\ pc' = "draw"
  /\ UNCHANGED <<out, err, exitCode, shouldClose, fs, shader, frames, img>>

\* Mutant: the texture is bound again before every draw call.
Draw_Rebind ==
  /\ pc = "draw"
  /\ Call(<<"glBindTexture", "glDrawArrays">>)
  /\ gl' = [gl EXCEPT !.draws = Append(gl.draws,
                [mode |-> "GL_TRIANGLE_STRIP", first |-> 0, count |-> DrawCount])]
  /\ frames' = frames + 1
  /\ pc' = "swap"
  /\ UNCHANGED <<out, err, exitCode, shouldClose, fs, shader, img>>

\* main, line 204: glDrawArrays(GL_TRIANGLE_STRIP, 0, 4).
Draw ==
  /\ pc = "draw"
  /\ Call(<<"glDrawArrays">>)
  /\ gl' = [gl EXCEPT !.draws = Append(gl.draws,
                [mode |-> "GL_TRIANGLE_STRIP", first |-> 0, count |-> DrawCount])]
  /\ frames' = frames + 1
  /\ pc' = "swap"
  /\ UNCHANGED <<out, err, exitCode, shouldClose, fs, shader, img>>

\* main, line 207.
SwapBuffers ==
  /\ pc = "swap"
  /\ Call(<<"glfwSwapBuffers">>)
  /\ pc' = "poll"
  /\ UNCHANGED <<out, err, exitCode, shouldClose, fs, shader, gl, frames, img>>

\* main, line 208: processing the pending events may deliver a close request,
\* which sets the window's close flag; nothing in the program clears it.
PollEvents ==
  /\ pc = "poll"
  /\ Call(<<"glfwPollEvents">>)
  /\ \E close \in BOOLEAN : shouldClose' = (shouldClose \/ close)
  /\ pc' = "loopTest"
  /\ UNCHANGED <<out, err, exitCode, fs, shader, gl, frames, img>>

\* main, lines 211-214.
Terminate ==
  /\ pc = "glfwTerminate"
  /\ Call(<<"glfwTerminate">>)
  /\ exitCode' = EXIT_SUCCESS
  /\ pc' = "exit"
  /\ UNCHANGED <<out, err, shouldClose, fs, shader, gl, frames, img>>

Next ==
  \/ GlfwInit
  \/ CreateWindow
  \/ GlewInit
  \/ ShaderCreate
  \/ CompileVertex
  \/ CompileFragment
  \/ Link
  \/ DeleteShaders
  \/ UseProgram
  \/ InitializeGeometry
  \/ LoadTexture
  \/ BindTexture
  \/ LoopTest
  \/ Clear
  \/ Draw
  \/ SwapBuffers
  \/ PollEvents
  \/ Terminate

Spec == Init /\ [][Next]_vars

(* ---------------- LoadImage applied to small images -------------------- *)
\* The byte values of the explored files.
Bytes == {0, 1, 255}

SeqsUpTo(S, n) == UNION {[1..k -> S] : k \in 0..n}

\* Image files with their contents: missing, or up to MaxFileLen bytes.
SmallImageFiles ==
  {[exists |-> FALSE, len |-> 0, bytes |-> <<>>]} \cup
  {[exists |-> TRUE, len |-> Len(b), bytes |-> b] : b \in SeqsUpTo(Bytes, MaxFileLen)}

LoadImageInit ==
  /\ MainInit
  /\ fs = [vert |-> Missing, frag |-> Missing,
           image |-> [exists |-> FALSE, len |-> 0]]
  /\ \E f \in SmallImageFiles, w \in 0..MaxDim, h \in 0..MaxDim :
       img = [stage |-> "call", file |-> f, width |-> w, height |-> h,
              buffer |-> <<>>, texture |-> NoTexture]

\* One application of LoadImage(image_file, width, height), lines 126-147,
\* with the bytes of buffer that glTexImage2D is handed.
LoadImageApply ==
  /\ img.stage = "call"
  /\ img' = [img EXCEPT
               !.stage = "returned",
               !.texture = LoadImage(img.file, img.width, img.height),
               !.buffer = BufferData(img.file, BufferSize(img.width, img.height))]
  /\ UNCHANGED <<pc, calls, out, err, exitCode, shouldClose, fs, shader, gl, frames>>

LoadImageNext == LoadImageApply

SpecLoadImage == LoadImageInit /\ [][LoadImageNext]_vars

(* ============================ properties =============================== *)
Count(name) == Cardinality({i \in DOMAIN calls : calls[i] = name})
Called(name) == \E i \in DOMAIN calls : calls[i] = name
LastCall == IF calls = <<>> THEN "" ELSE calls[Len(calls)]
Words(line) == {line[i] : i \in DOMAIN line}

\* The positions of main inside ShaderProgram and in the rest of the set-up.
ShaderPositions == {"ShaderProgram", "compileVertex", "compileFragment", "link",
                    "deleteShaders"}
SetupPositions == ShaderPositions \cup
                  {"glUseProgram", "InitializeGeometry", "LoadImage", "bindTexture"}
\* The positions after ShaderProgram has returned on a run that did not fail
\* an initialization check.
AfterShaderProgram == Called("glDeleteShader")
FailedChecks ==
  (IF shader.vertex_ok THEN 0 ELSE 1) + (IF shader.fragment_ok THEN 0 ELSE 1)
  + (IF shader.link_ok THEN 0 ELSE 1)

\* C1: whatever the three status checks of ShaderProgram give, a failed check
\* only adds that stage's log line to the output: nothing is written to the
\* diagnostic stream and no failure exit is taken once ShaderProgram has
\* started, every later step runs (both compiles, both attaches, the link, both
\* deletions), ShaderProgram returns, main makes the returned handle current
\* (zero or unlinked included) and goes on step by step to the render loop.
C1_LogAndContinue ==
  /\ Called("glCreateShader") => exitCode # EXIT_FAILURE /\ err = <<>>
  /\ pc \in SetupPositions => ENABLED Next
  /\ AfterShaderProgram =>
       /\ shader.returned
       /\ Count("glCompileShader") = 2
       /\ Count("glAttachShader") = 2
       /\ Count("glLinkProgram") = 1
       /\ Count("glDeleteShader") = 2
       /\ Len(out) = 3 + FailedChecks
  /\ Called("glUseProgram") =>
       /\ Count("glUseProgram") = 1
       /\ gl.current_program = shader.program_id
  /\ Called("glDrawArrays") => AfterShaderProgram /\ Called("glUseProgram")

\* All three checks failed, the handle is zero, and a frame has been drawn.
C1_Witness ==
  /\ frames >= 1
  /\ ~shader.vertex_ok /\ ~shader.fragment_ok /\ ~shader.link_ok
  /\ shader.program_id = 0
  /\ gl.current_program = 0

InitFailureMessages ==
  {"Failed to initialize GLFW!",
   "Failed to open GLFW window, your graphics card is probably only capable of OpenGL 2.1",
   "Failed to initialize GLEW with OpenGL 3.3!"}
\* One of the three initialization checks failed: its message is the only thing
\* ever written to std::cerr.
InitCheckFailed == \E m \in InitFailureMessages : err = <<m>>
\* The render loop was reached and left on a close request.
ClosedNormally ==
  /\ shouldClose
  /\ Len(calls) >= 2
  /\ calls[Len(calls) - 1] = "glfwWindowShouldClose"
  /\ calls[Len(calls)] = "glfwTerminate"

\* C2: the process has an exit code only at exit; it is EXIT_SUCCESS exactly
\* when the render loop was reached and left on a close request, EXIT_FAILURE
\* exactly when one of the three initialization checks failed, and nothing
\* else (shader outcomes, missing files) has a part in it.
C2_ExitCode ==
  /\ pc # "exit" => exitCode = -1 /\ ~InitCheckFailed
  /\ pc = "exit" =>
       /\ exitCode \in {EXIT_SUCCESS, EXIT_FAILURE}
       /\ exitCode = EXIT_SUCCESS <=> ClosedNormally
       /\ exitCode = EXIT_FAILURE <=> InitCheckFailed
       /\ ~(ClosedNormally /\ InitCheckFailed)

\* A run with missing files and every shader check failed exits with success.
C2_Witness ==
  /\ pc = "exit" /\ exitCode = EXIT_SUCCESS
  /\ fs.vert = Missing /\ ~fs.image.exists
  /\ ~shader.vertex_ok /\ ~shader.fragment_ok /\ ~shader.link_ok

SetupAndDrawCalls ==
  {"glCreateShader", "glShaderSource", "glCompileShader", "glCreateProgram",
   "glLinkProgram", "glUseProgram", "glGenBuffers", "glBufferData",
   "glGenTextures", "glTexImage2D", "glClear", "glDrawArrays",
   "glfwSwapBuffers", "glfwPollEvents", "glfwWindowShouldClose"}

\* C4: a failed initialization check writes its message to std::cerr and the
\* process is at exit with EXIT_FAILURE in the same step; in such a run no
\* shader was compiled, nothing was uploaded and nothing drawn.
C4_FatalInit ==
  (err # <<>> \/ exitCode = EXIT_FAILURE) =>
    /\ pc = "exit"
    /\ exitCode = EXIT_FAILURE
    /\ InitCheckFailed
    /\ LastCall \in {"glfwInit", "glfwTerminate"}
    /\ \A i \in DOMAIN calls : calls[i] \notin SetupAndDrawCalls
    /\ shader = NoShader /\ gl = NoGL /\ frames = 0 /\ out = <<>>

\* The GL 3.3 check failed after the window was created.
C4_Witness ==
  /\ pc = "exit"
  /\ err = <<"Failed to initialize GLEW with OpenGL 3.3!">>
  /\ Called("glewIsSupported")

\* Windowing and graphics entry points are all that calls records.
\* C10: glfwTerminate is called at most once and nothing is called after it;
\* at exit it has been called exactly once when glfwInit succeeded (window
\* creation failure, GL 3.3 failure, normal closure) and not at all when
\* glfwInit failed.
C10_TerminateOnce ==
  /\ Count("glfwTerminate") <= 1
  /\ Called("glfwTerminate") => LastCall = "glfwTerminate" /\ pc = "exit"
  /\ pc = "exit" =>
       IF err = <<"Failed to initialize GLFW!">>
       THEN calls = <<"glfwInit">>
       ELSE Count("glfwTerminate") = 1

\* Window creation failed: glfwTerminate was called once, last.
C10_Witness ==
  /\ pc = "exit"
  /\ err = <<"Failed to open GLFW window, your graphics card is probably only capable of OpenGL 2.1">>
  /\ Count("glfwTerminate") = 1

\* The calls of one iteration of the render loop, in order.
Iteration ==
  <<"glfwWindowShouldClose", "glClearColor", "glClear", "glDrawArrays",
    "glfwSwapBuffers", "glfwPollEvents">>
\* The calls from the first test of the loop condition on.
LoopTrace ==
  IF Called("glfwWindowShouldClose")
  THEN LET start == CHOOSE i \in DOMAIN calls :
                      /\ calls[i] = "glfwWindowShouldClose"
                      /\ \A j \in 1..(i - 1) : calls[j] # "glfwWindowShouldClose"
       IN  SubSeq(calls, start, Len(calls))
  ELSE <<>>

C3_Order ==
  LET t == LoopTrace
      n == Len(t)
      body == IF n > 0 /\ t[n] = "glfwTerminate" THEN n - 1 ELSE n
  IN  /\ \A j \in 1..body : t[j] = Iteration[((j - 1) % 6) + 1]
      /\ n > body => body % 6 = 1 /\ shouldClose
      /\ pc = "glfwTerminate" => shouldClose
      /\ pc \in {"clear", "draw", "swap", "poll"} => ~shouldClose
      /\ Count("glDrawArrays") = frames /\ Len(gl.draws) = frames
      /\ \A k \in DOMAIN gl.draws :
           gl.draws[k] = [mode |-> "GL_TRIANGLE_STRIP", first |-> 0, count |-> 4]
      /\ Called("glClear") => gl.clear_color = <<".5f", ".5f", ".5f", "0">>

C3_Step ==
  /\ pc = "loopTest" /\ shouldClose => pc' = "glfwTerminate"
  /\ pc = "loopTest" /\ ~shouldClose => pc' = "clear"
  /\ shouldClose => gl.draws' = gl.draws /\ frames' = frames /\ shouldClose'

\* C3: from the first test of the loop condition on, the calls are repetitions
\* of: test, clear (gray, colour+depth), one triangle-strip draw of 4 vertices,
\* swap, poll, in this order; the loop is left only from the test and only
\* with the close flag set; a test that finds the flag set goes to
\* glfwTerminate without drawing (also the very first test), and once the flag
\* is set no draw call is added.
C3_RenderLoop == [](C3_Order) /\ [][C3_Step]_vars

\* Two frames were drawn and the loop was left on a close request.
C3_Witness == pc = "exit" /\ exitCode = EXIT_SUCCESS /\ frames >= 2

IsSetupCall(c) ==
  c \in {"glCompileShader", "glLinkProgram", "glUseProgram", "glBufferData",
         "glTexImage2D", "glUniform1i", "glActiveTexture", "glBindTexture"}
SetupOrder ==
  <<"glCompileShader", "glCompileShader", "glLinkProgram", "glUseProgram",
    "glBufferData", "glBufferData", "glBindTexture", "glTexImage2D",
    "glUniform1i", "glActiveTexture", "glBindTexture">>
IsPrefix(a, b) == Len(a) <= Len(b) /\ a = SubSeq(b, 1, Len(a))
SetupDone == SelectSeq(calls, IsSetupCall) = SetupOrder

\* C6: after the initialization checks the set-up calls happen in one fixed
\* order, whatever the shader checks and the files give: compile, compile,
\* link, use program, the two buffer uploads, the texture upload, uniform
\* 'Texture' = 0, unit 0 active, texture bound.  All of them have happened
\* before the loop condition is first tested (so before the first draw), and
\* none happens again afterwards.
C6_LinearStartup ==
  /\ IsPrefix(SelectSeq(calls, IsSetupCall), SetupOrder)
  /\ Called("glfwWindowShouldClose") =>
       /\ SetupDone
       /\ gl.current_program = shader.program_id
       /\ gl.uniform_Texture = 0 /\ gl.active_unit = 0
       /\ gl.bound_texture = gl.texture.texture_id
       /\ gl.texture.uploaded
  /\ Called("glDrawArrays") => Called("glfwWindowShouldClose")
  /\ pc \in SetupPositions => ~SetupDone \/ pc = "bindTexture"

\* Two frames were drawn after a set-up in which the link check failed.
C6_Witness == frames >= 2 /\ ~shader.link_ok /\ SetupDone

\* C7: a missing shader file gives the empty string as source, which is still
\* compiled and linked; a missing or short image file gives a texture whose
\* buffer received no or only the file's bytes and is uploaded all the same;
\* nothing is written to std::cerr, no failure exit is taken, every set-up
\* step runs and the render loop is entered.
C7_UncheckedFiles ==
  /\ Called("glCompileShader") =>
       /\ fs.vert = Missing => shader.vertex_shader_code = ""
       /\ fs.frag = Missing => shader.fragment_shader_code = ""
  /\ Called("glTexImage2D") =>
       /\ gl.texture.uploaded
       /\ gl.texture.size = SIZE * SIZE * 3
       /\ gl.texture.overrun = 0
       /\ ~fs.image.exists => gl.texture.stored = 0
       /\ fs.image.exists /\ fs.image.len < SIZE * SIZE * 3 =>
            gl.texture.stored = fs.image.len
       /\ fs.image.exists /\ fs.image.len >= SIZE * SIZE * 3 =>
            gl.texture.stored = SIZE * SIZE * 3
  /\ Called("glCreateShader") =>
       /\ err = <<>> /\ exitCode # EXIT_FAILURE
       /\ pc \in SetupPositions => ENABLED Next
       /\ pc \notin SetupPositions =>
            /\ SetupDone
            /\ Count("glShaderSource") = 2
            /\ Called("glfwWindowShouldClose") \/ pc = "loopTest"

\* Both shader files and the image file are missing and a frame was drawn.
C7_Witness ==
  /\ fs.vert = Missing /\ fs.frag = Missing /\ ~fs.image.exists
  /\ gl.texture.uploaded /\ gl.texture.stored = 0
  /\ frames >= 1

\* The line a failed stage adds to the output for the driver's log.
LogLine(log) == IF log = <<>> THEN <<>> ELSE log \o <<"\\0">>
ExpectedOutput ==
  <<VertexBanner>> \o
  (IF shader.vertex_ok THEN <<>> ELSE <<LogLine(shader.vertex_log)>>) \o
  <<FragmentBanner>> \o
  (IF shader.fragment_ok THEN <<>> ELSE <<LogLine(shader.fragment_log)>>) \o
  <<LinkBanner>> \o
  (IF shader.link_ok THEN <<>> ELSE <<LogLine(shader.program_log)>>)

Corners == << <<1, 1>>, <<-1, 1>>, <<1, -1>>, <<-1, -1>> >>
Pairs(buf) == [k \in 1..(Len(buf) \div 2) |-> <<buf[2 * k - 1], buf[2 * k]>>]

\* C9: once InitializeGeometry has run, the position buffer holds the four
\* corners (1,1), (-1,1), (1,-1), (-1,-1) and the texture-coordinate buffer four
\* UV pairs, 8 floats each, whatever was or will be loaded as texture; every draw
\* call asks for as many vertices as each buffer holds.
C9_Geometry ==
  /\ Called("glBufferData") =>
       /\ Len(gl.vertex_buffer) = 8 /\ Len(gl.texcoord_buffer) = 8
       /\ Pairs(gl.vertex_buffer) = Corners
       /\ Len(Pairs(gl.texcoord_buffer)) = 4
       /\ \A k \in 1..4 : Pairs(gl.texcoord_buffer)[k] \in {0, 1} \X {0, 1}
  /\ \A k \in DOMAIN gl.draws :
       /\ gl.draws[k].count * 2 = Len(gl.vertex_buffer)
       /\ gl.draws[k].count * 2 = Len(gl.texcoord_buffer)

\* A frame was drawn with a texture loaded from a short image file.
C9_Witness ==
  /\ frames >= 1
  /\ gl.texture.uploaded /\ gl.texture.stored < gl.texture.size

\* C5: LoadImage's buffer has exactly width*height*3 bytes; read() stores
\* min(L, width*height*3) bytes (none for a missing file), none of them past
\* the end of the buffer; the stored bytes are the file's first bytes and every
\* other byte of the buffer is 0; nothing is reported, the texture is uploaded
\* and its handle returned.
C5_LoadImageBuffer ==
  img.stage = "returned" =>
    LET L == IF img.file.exists THEN Len(img.file.bytes) ELSE 0
        size == img.width * img.height * 3
        t == img.texture
    IN  /\ Len(img.buffer) = size /\ t.size = size
        /\ t.stored = (IF L < size THEN L ELSE size)
        /\ t.overrun = 0
        /\ \A i \in 1..size :
             img.buffer[i] = IF i <= t.stored THEN img.file.bytes[i] ELSE 0
        /\ t.diagnostics = <<>>
        /\ t.uploaded /\ t.texture_id # 0
        /\ t.width = img.width /\ t.height = img.height

\* A file shorter than the buffer, with a non-zero byte, was loaded.
C5_Witness ==
  /\ img.stage = "returned"
  /\ img.file.exists
  /\ 0 < img.texture.stored /\ img.texture.stored < img.texture.size
  /\ img.buffer[1] # 0
  /\ img.buffer[Len(img.buffer)] = 0

====
